---- MODULE Spec2Model ----
(***************************************************************************)
(* A model of app.py, the WhatsApp webhook of chatbot-humas-webhook:       *)
(*   POST /webhook  webhook_post   parse, validate, completion, two relay  *)
(*                                 calls, acknowledgement                   *)
(*   GET  /webhook  webhook_get    subscription verification               *)
(*   GET  /         index          static page                             *)
(* Every request is served by its own handler; a handler suspends at each  *)
(* outbound call, so the handlers interleave at those points.              *)
(***************************************************************************)
EXTENDS Naturals, Sequences, FiniteSets

\* ------------------------------------------------------------------ bounds

\* The number of POST /webhook requests that may be in flight together.
NumHandlers == 2

Handlers == 1..NumHandlers

\* ------------------------------------------------------- Python's values

\* Python's None, as request.args.get and dict.get return it for a missing key.
PyNone == "<None>"

\* A key that the JSON object does not hold.
Absent == "<absent>"

\* No exception was raised.
NoExc == "none"

\* The shapes a JSON value on the expected path can have: an object, a
\* non-empty array, an empty array, a non-empty string, null (a number or a
\* boolean fails as null does where it is indexed, and as a string does where
\* .get is called on it).
Kinds == {"dict", "list", "emptylist", "str", "null"}

\* bool(v) of a JSON value of this shape (a dict is decided by its keys).
Truthy(kind) == kind \in {"list", "str"}

\* As PyGet, with the default left out: d.get(key) is None for an absent key.
PyGetNoDefault(recv, child, default) ==
    IF recv # "dict" THEN [exc |-> "AttributeError", v |-> PyNone]
    ELSE IF child = Absent THEN [exc |-> NoExc, v |-> PyNone]
    ELSE [exc |-> NoExc, v |-> child]

\* d.get(key, default): AttributeError unless d is a dict.
PyGet(recv, child, default) ==
    IF recv # "dict" THEN [exc |-> "AttributeError", v |-> PyNone]
    ELSE IF child = Absent THEN [exc |-> NoExc, v |-> default]
    ELSE [exc |-> NoExc, v |-> child]

\* x[0]: the first element of a non-empty list, the first character of a
\* non-empty string; IndexError on an empty list, KeyError on a dict (a JSON
\* object has no key 0), TypeError on None or a number.
PyIndex0(recv, elem) ==
    CASE recv = "list"      -> [exc |-> NoExc, v |-> elem]
      [] recv = "str"       -> [exc |-> NoExc, v |-> "str"]
      [] recv = "emptylist" -> [exc |-> "IndexError", v |-> PyNone]
      [] recv = "dict"      -> [exc |-> "KeyError", v |-> PyNone]
      [] OTHER              -> [exc |-> "TypeError", v |-> PyNone]

\* ---------------------------------------------------------- the payloads

\* The nodes of the expected path entry[0].changes[0].value.{messages[0],
\* metadata}: the containers hold a shape, the leaves hold a string or Absent.
Fields == {"data", "entry", "entry0", "changes", "changes0", "value",
           "messages", "message0", "type", "text", "body", "from", "id",
           "metadata", "phone"}

\* The nodes below a node: they do not exist when the node is no container.
Below(node) ==
    CASE node = "data"     -> Fields \ {"data"}
      [] node = "entry"    -> Fields \ {"data", "entry"}
      [] node = "entry0"   -> Fields \ {"data", "entry", "entry0"}
      [] node = "changes"  -> Fields \ {"data", "entry", "entry0", "changes"}
      [] node = "changes0" -> {"value", "messages", "message0", "type", "text",
                               "body", "from", "id", "metadata", "phone"}
      [] node = "value"    -> {"messages", "message0", "type", "text", "body",
                               "from", "id", "metadata", "phone"}
      [] node = "messages" -> {"message0", "type", "text", "body", "from", "id"}
      [] node = "message0" -> {"type", "text", "body", "from", "id"}
      [] node = "text"     -> {"body"}
      [] node = "metadata" -> {"phone"}
      [] OTHER             -> {}

\* The payload b with the node given another shape (or removed, or a leaf
\* given another value); what was below the node goes with it.
With(b, node, v) ==
    [f \in Fields |-> IF f = node THEN v
                      ELSE IF f \in Below(node) THEN Absent
                      ELSE b[f]]

\* The text delivery of user k: every field present and the user's own.
TextDelivery(k) ==
    [f \in Fields |->
        CASE f \in {"data", "entry0", "changes0", "value", "message0",
                    "text", "metadata"}                 -> "dict"
          [] f \in {"entry", "changes", "messages"}     -> "list"
          [] f = "type"  -> "text"
          [] f = "body"  -> IF k = 1 THEN "halo" ELSE "jam buka?"
          [] f = "from"  -> IF k = 1 THEN "6281" ELSE "6282"
          [] f = "id"    -> IF k = 1 THEN "wamid.1" ELSE "wamid.2"
          [] f = "phone" -> IF k = 1 THEN "pn-1" ELSE "pn-2"]

Users == {1, 2}

\* The nodes .get is called on, and the nodes [0] is applied to.
GetNodes == {"data", "entry0", "changes0", "value", "message0", "metadata", "text"}
IndexNodes == {"entry", "changes", "messages"}

\* A wrong type at one node of the path.
WrongType ==
    {With(TextDelivery(1), n, k) : n \in GetNodes, k \in {"list", "null"}}
    \cup {With(TextDelivery(1), n, k) : n \in IndexNodes, k \in {"dict", "str", "null"}}
    \cup {With(With(TextDelivery(1), "type", "image"), "metadata", "list"),
          With(TextDelivery(1), "message0", "emptylist")}

\* An array of the path that is empty.
EmptyArray == {With(TextDelivery(1), n, "emptylist") : n \in IndexNodes}

\* A key of the path that is absent.
AbsentKey ==
    {With(TextDelivery(1), n, Absent) : n \in {"entry", "changes", "value", "messages"}}

\* A text message that lacks a required field, or holds it empty.
MissingField ==
    {With(TextDelivery(k), n, v) : k \in Users, n \in {"body", "from", "id", "phone"},
                                   v \in {Absent, ""}}
    \cup {With(TextDelivery(k), n, Absent) : k \in Users, n \in {"metadata", "text"}}

\* A message that is not a text message, with and without the other fields.
NonText ==
    {With(TextDelivery(k), "type", t) : k \in Users, t \in {"image", Absent}}
    \cup {With(With(TextDelivery(1), "type", "image"), n, Absent) :
            n \in {"from", "id", "metadata"}}
    \cup {With(TextDelivery(1), "message0", "dict")}

\* Every request body the single-request specification delivers.
Payloads ==
    {TextDelivery(k) : k \in Users} \cup WrongType \cup EmptyArray
    \cup AbsentKey \cup MissingField \cup NonText

\* The bodies delivered to the concurrent handlers.
Deliveries ==
    {TextDelivery(k) : k \in Users}
    \cup {With(TextDelivery(1), "type", "image"),
          With(TextDelivery(2), "id", Absent),
          With(TextDelivery(1), "entry", "dict"),
          With(TextDelivery(1), "messages", "emptylist")}

\* ------------------------------------------------- webhook_post, the parser

\* The exceptions the parser's except clause names.
CaughtByParser == {"IndexError", "AttributeError", "TypeError"}

\* The try block of webhook_post: the descent of the expected path, each .get
\* with its default. exc is the first exception raised, if any.
ParsePayload(b) ==
    LET e   == PyGet(b.data, b.entry, "list")
        e0  == PyIndex0(e.v, IF b.entry = Absent THEN "dict" ELSE b.entry0)
        c   == PyGet(e0.v, b.changes, "list")
        c0  == PyIndex0(c.v, IF b.changes = Absent THEN "dict" ELSE b.changes0)
        val == PyGet(c0.v, b.value, "dict")
        m   == PyGet(val.v, b.messages, "list")
        m0  == PyIndex0(m.v, IF b.messages = Absent THEN "dict" ELSE b.message0)
        md  == PyGet(val.v, b.metadata, "dict")
        steps == <<e, e0, c, c0, val, m, m0, md>>
        bad == {i \in 1..Len(steps) : steps[i].exc # NoExc}
    IN  IF bad = {}
        THEN [exc |-> NoExc, message_object |-> m0.v, metadata |-> md.v]
        ELSE [exc |-> steps[CHOOSE i \in bad : \A j \in bad : i <= j].exc,
              message_object |-> PyNone, metadata |-> PyNone]

\* bool(message_object): a dict is true when it holds a key.
MessageTruthy(b, mo) ==
    IF mo = "dict"
    THEN b.messages # Absent /\ \E f \in {"type", "text", "from", "id"} : b[f] # Absent
    ELSE Truthy(mo)

\* dict.get(key) of a leaf: None when the key is absent.
Leaf(v) == IF v = Absent THEN PyNone ELSE v

\* As AllPresent, with any(...) in the place of all(...).
AnyPresent(vals) == \E v \in vals : v # PyNone /\ v # ""

\* all([...]) of the four required fields: none is None or empty.
AllPresent(vals) == \A v \in vals : v # PyNone /\ v # ""

\* As IsText, with the comparison of the type left out.
IsTextAlways(b) == TRUE

\* message_object.get("type") == "text"
IsText(b) == Leaf(b.type) = "text"

\* The bodies of the responses of webhook_post.
MalformedPayload == "error: Malformed payload"
MissingData == "error: Missing message data"
Success == "success"
InternalServerError == "Internal Server Error"

\* What webhook_post decides before its first outbound call: the response
\* it returns at once (status > 0), or the four fields it goes on with.
\* An exception no except clause catches is the framework's 500.
Inspect(b) ==
    LET p == ParsePayload(b)
        reject(s, msg) == [status |-> s, message |-> msg, phone |-> PyNone,
                           text |-> PyNone, from |-> PyNone, id |-> PyNone]
    IN  IF p.exc \in CaughtByParser THEN reject(400, MalformedPayload)
        ELSE IF p.exc # NoExc THEN reject(500, InternalServerError)
        ELSE IF ~MessageTruthy(b, p.message_object) THEN reject(200, Success)
        ELSE IF p.message_object # "dict" THEN reject(500, InternalServerError)
        ELSE IF ~IsText(b) THEN reject(200, Success)
        ELSE IF p.metadata # "dict" THEN reject(500, InternalServerError)
        ELSE IF b.text \notin {"dict", Absent} THEN reject(500, InternalServerError)
        ELSE LET phone == Leaf(b.phone)
                 text  == Leaf(b.body)
                 from  == Leaf(b.from)
                 id    == Leaf(b.id)
             IN  IF ~AllPresent({phone, text, from, id})
                 THEN reject(400, MissingData)
                 ELSE [status |-> 0, message |-> PyNone, phone |-> phone,
                       text |-> text, from |-> from, id |-> id]

\* ------------------------------------------------------------- the state

VARIABLES
    client,                 \* the OpenAI client of the process, or None
    WEBHOOK_VERIFY_TOKEN,   \* the configured verify token, or None
    req,                    \* per handler: its position and its local variables
    calls,                  \* per handler: the outbound calls it has made, in order
    get_request,            \* the query parameters of the last GET /webhook
    get_response            \* the response to the last GET request

vars == <<client, WEBHOOK_VERIFY_TOKEN, req, calls, get_request, get_response>>

\* A payload that holds nothing: the locals of a handler not yet started.
NoPayload == [f \in Fields |-> Absent]

IdleRequest ==
    [pc |-> "idle", data |-> NoPayload,
     business_phone_number_id |-> PyNone, user_message_text |-> PyNone,
     message_from |-> PyNone, message_id |-> PyNone,
     ai_reply |-> PyNone, status |-> 0, message |-> PyNone]

NoGet == [route |-> "-", mode |-> PyNone, token |-> PyNone, challenge |-> PyNone]

\* The module is imported: the configuration is read from the environment and
\* the client is built, or is None when OpenAI(...) raised.
Init ==
    /\ client \in {"client", PyNone}
    /\ WEBHOOK_VERIFY_TOKEN \in {"s3cret", PyNone}
    /\ req = [h \in Handlers |-> IdleRequest]
    /\ calls = [h \in Handlers |-> <<>>]
    /\ get_request = NoGet
    /\ get_response = [status |-> 0, body |-> PyNone]

\* ------------------------------------------------------ get_chat_completion

ServiceUnavailable ==
    "Maaf sedang ada kendala pada Asisten AI kami. Mohon ditunggu hingga kami menghubungi Anda kembali..."

ErrorProcessing ==
    "Ada kesalahan dalam memproses permintaan Anda. Mohon coba lagi nanti."

\* What the provider does with a request: it answers, or the call raises
\* (network, authentication, rate limit, a response without choices).
ProviderOutcomes == {"ok", "raise"}

\* completion.choices[0].message.content for this user message.
CompletionText(user_message) == "balasan: " \o user_message

\* As get_chat_completion, with no return in the except branch: the function
\* returns None when the provider call raises.
get_chat_completion_no_return(cl, user_message, outcome) ==
    IF cl = PyNone
    THEN [value |-> ServiceUnavailable, called |-> FALSE, raised |-> FALSE]
    ELSE IF outcome = "ok"
    THEN [value |-> CompletionText(user_message), called |-> TRUE, raised |-> FALSE]
    ELSE [value |-> PyNone, called |-> TRUE, raised |-> FALSE]

\* get_chat_completion(user_message) when the provider, if called, does
\* `outcome`: the returned value, whether the provider was called, and
\* whether an exception leaves the function.
get_chat_completion(cl, user_message, outcome) ==
    IF cl = PyNone
    THEN [value |-> ServiceUnavailable, called |-> FALSE, raised |-> FALSE]
    ELSE IF outcome = "ok"
    THEN [value |-> CompletionText(user_message), called |-> TRUE, raised |-> FALSE]
    ELSE [value |-> ErrorProcessing, called |-> TRUE, raised |-> FALSE]

\* ---------------------------------------------------------- the relay calls

\* requests.post(...), raise_for_status() and .json(): a 2xx response, a
\* non-2xx response, no response at all.
RelayOutcomes == {"2xx", "non2xx", "transport"}

\* The exception the try block of a relay call raises on this outcome:
\* raise_for_status() raises HTTPError, requests.post raises ConnectionError
\* (or Timeout) when no response arrives.
RelayException(outcome) ==
    CASE outcome = "2xx"    -> NoExc
      [] outcome = "non2xx" -> "HTTPError"
      [] OTHER              -> "ConnectionError"

\* As RequestException, for an except clause that names ConnectionError only.
ConnectionErrorOnly == {"ConnectionError", "Timeout"}

\* requests.exceptions.RequestException, the class both except clauses name,
\* and its subclasses.
RequestException == {"HTTPError", "ConnectionError", "Timeout"}

\* Whether the exception of this outcome leaves the try statement around the
\* relay call.
RelayErrorEscapes(outcome) ==
    RelayException(outcome) \notin RequestException \cup {NoExc}

\* One outbound call, as the provider or the platform receives it.
Call(api, phone, to, body, message_id, outcome) ==
    [api |-> api, phone |-> phone, to |-> to, body |-> body,
     message_id |-> message_id, outcome |-> outcome]

\* The chat-completion request: the user text as the sole message.
completion_request(h, outcome) ==
    Call("completion", "-", "-", req[h].user_message_text, "-", outcome)

\* As payload_reply, with the recipient kept in a variable of the module that
\* every handler assigns: the reply goes to the sender of the delivery
\* received last.
payload_reply_shared(h, outcome) ==
    LET started == {g \in Handlers : req[g].message_from # PyNone}
        last == CHOOSE g \in started : \A k \in started : k <= g
    IN  Call("send", req[h].business_phone_number_id, req[last].message_from,
             req[h].ai_reply, req[h].message_id, outcome)

\* POST graph_api_url with payload_reply.
payload_reply(h, outcome) ==
    Call("send", req[h].business_phone_number_id, req[h].message_from,
         req[h].ai_reply, req[h].message_id, outcome)

\* POST graph_api_url with payload_read.
payload_read(h, outcome) ==
    Call("read", req[h].business_phone_number_id, "-", "-",
         req[h].message_id, outcome)

\* ---------------------------------------------------------------- actions

\* As Accepts, with deduplication: a message some handler has marked as read
\* is not processed again.
AcceptsOnce(h, b) ==
    /\ Inspect(b).status = 0
    /\ ~\E g \in Handlers : \E i \in 1..Len(calls[g]) :
            calls[g][i].api = "read" /\ calls[g][i].message_id = Leaf(b.id)

\* Whether the handler goes on to the completion step with this body: no
\* response was returned before it.
Accepts(h, b) == Inspect(b).status = 0

\* The response of a handler an uncaught exception ended.
Crashed(r) == [r EXCEPT !.pc = "done", !.status = 500, !.message = InternalServerError]

\* As RelayAttempts, with one retry of a failed call.
RelayAttemptsRetry(call) == IF call.outcome = "2xx" THEN <<call>> ELSE <<call, call>>

\* The requests a relay step sends for one call: one attempt, no retry.
RelayAttempts(call) == <<call>>

\* webhook_post up to its first outbound call: parse, type check, field check.
Receive(h, b) ==
    /\ req[h].pc = "idle"
    /\ LET r == Inspect(b)
       IN  req' = [req EXCEPT ![h] =
                IF Accepts(h, b)
                THEN [@ EXCEPT !.pc = "completion", !.data = b,
                               !.business_phone_number_id = r.phone,
                               !.user_message_text = r.text,
                               !.message_from = r.from,
                               !.message_id = r.id]
                ELSE [@ EXCEPT !.pc = "done", !.data = b,
                               !.status = r.status, !.message = r.message]]
    /\ UNCHANGED <<client, WEBHOOK_VERIFY_TOKEN, calls, get_request, get_response>>

\* ai_reply = get_chat_completion(user_message_text).
Complete(h) ==
    /\ req[h].pc = "completion"
    /\ \E o \in ProviderOutcomes :
         LET r == get_chat_completion(client, req[h].user_message_text, o)
         IN  /\ calls' = [calls EXCEPT ![h] =
                    IF r.called THEN Append(@, completion_request(h, o)) ELSE @]
             /\ req' = [req EXCEPT ![h] =
                    IF r.raised
                    THEN Crashed(@)
                    ELSE [@ EXCEPT !.pc = "send_reply", !.ai_reply = r.value]]
    /\ UNCHANGED <<client, WEBHOOK_VERIFY_TOKEN, get_request, get_response>>

\* The first relay call: send the reply.
SendReply(h) ==
    /\ req[h].pc = "send_reply"
    /\ \E o \in RelayOutcomes :
         /\ calls' = [calls EXCEPT ![h] = @ \o RelayAttempts(payload_reply(h, o))]
         /\ req' = [req EXCEPT ![h] =
                IF RelayErrorEscapes(o)
                THEN Crashed(@)
                ELSE [@ EXCEPT !.pc = "mark_read"]]
    /\ UNCHANGED <<client, WEBHOOK_VERIFY_TOKEN, get_request, get_response>>

\* The second relay call: mark the message as read; then the acknowledgement.
MarkRead(h) ==
    /\ req[h].pc = "mark_read"
    /\ \E o \in RelayOutcomes :
         /\ calls' = [calls EXCEPT ![h] = @ \o RelayAttempts(payload_read(h, o))]
         /\ req' = [req EXCEPT ![h] =
                IF RelayErrorEscapes(o)
                THEN Crashed(@)
                ELSE [@ EXCEPT !.pc = "done", !.status = 200, !.message = Success]]
    /\ UNCHANGED <<client, WEBHOOK_VERIFY_TOKEN, get_request, get_response>>

\* -------------------------------------------------------------- webhook_get

\* What the framework makes of a view's return value (body, status): a body
\* of None is no valid response, and the request ends in a 500.
FlaskResponse(rv) ==
    IF rv.body = PyNone
    THEN [status |-> 500, body |-> "Internal Server Error"]
    ELSE rv

\* The view webhook_get: its return value for these query parameters
\* (PyNone for a parameter the query string does not hold).
webhook_get(mode, token, challenge) ==
    IF mode \notin {PyNone, ""} /\ token \notin {PyNone, ""}
    THEN IF mode = "subscribe" /\ token = WEBHOOK_VERIFY_TOKEN
         THEN [status |-> 200, body |-> challenge]
         ELSE [status |-> 403, body |-> "error: Verification token mismatch"]
    ELSE [status |-> 400, body |-> "error: Missing mode or token"]

Modes == {PyNone, "", "subscribe", "unsubscribe"}
Tokens == {PyNone, "", "s3cret", "wrong"}
Challenges == {PyNone, "", "1158201444", "challenge-2"}

\* GET /webhook
WebhookGet ==
    /\ \E mode \in Modes, token \in Tokens, challenge \in Challenges :
         /\ get_request' = [route |-> "/webhook", mode |-> mode, token |-> token,
                             challenge |-> challenge]
         /\ get_response' = FlaskResponse(webhook_get(mode, token, challenge))
    /\ UNCHANGED <<client, WEBHOOK_VERIFY_TOKEN, req, calls>>

\* GET /
Index ==
    /\ get_request' = [NoGet EXCEPT !.route = "/"]
    /\ get_response' = [status |-> 200, body |-> "Python WhatsApp Webhook is running."]
    /\ UNCHANGED <<client, WEBHOOK_VERIFY_TOKEN, req, calls>>

\* ------------------------------------------------------- the specifications

\* Concurrent deliveries: every handler serves one POST /webhook.
Next ==
    \E h \in Handlers :
        \/ \E b \in Deliveries : Receive(h, b)
        \/ Complete(h)
        \/ SendReply(h)
        \/ MarkRead(h)

Spec == Init /\ [][Next]_vars

\* One delivery, of any shape: what a single request does with its body.
NextSingle ==
    \/ \E b \in Payloads : Receive(1, b)
    \/ Complete(1)
    \/ SendReply(1)
    \/ MarkRead(1)

SpecSingle == Init /\ [][NextSingle]_vars

\* The GET routes; they share no state with POST /webhook.
NextGet == WebhookGet \/ Index

SpecGet == Init /\ [][NextGet]_vars

\* ------------------------------------------------- the claims' vocabulary

Finished(h) == req[h].pc = "done"

\* The names of the outbound calls of a handler, in the order it made them.
Apis(h) == [i \in 1..Len(calls[h]) |-> calls[h][i].api]

\* The outbound calls of a handler to one of the three operations.
CallsTo(h, api) == {i \in 1..Len(calls[h]) : calls[h][i].api = api}

\* A value of a wrong type at some level of the expected path.
WrongTypeOnPath(b) ==
    \/ \E n \in GetNodes : b[n] \in Kinds \ {"dict"}
    \/ \E n \in IndexNodes : b[n] \in Kinds \ {"list", "emptylist"}

\* An array of the expected path with no index 0.
EmptyArrayOnPath(b) == \E n \in IndexNodes : b[n] = "emptylist"

\* The delivery carries a message object of type "text".
TextMessage(b) == b.message0 = "dict" /\ b.type = "text"

\* phoneNumberId, textBody, fromUser and messageId are all present and non-empty.
AllFour(b) ==
    /\ b.metadata = "dict" /\ b.phone \notin {Absent, ""}
    /\ b.text = "dict" /\ b.body \notin {Absent, ""}
    /\ b.from \notin {Absent, ""}
    /\ b.id \notin {Absent, ""}

\* s is a prefix of t.
IsPrefix(s, t) == Len(s) <= Len(t) /\ \A i \in 1..Len(s) : s[i] = t[i]

\* The outbound calls a valid text delivery leads to in this process.
ExpectedApis ==
    IF client = PyNone THEN <<"send", "read">> ELSE <<"completion", "send", "read">>

\* ------------------------------------------------------------------- C1

\* C1 as stated: every valid text delivery with all four fields leads to
\* exactly one completion-provider call, one send-reply call and one
\* mark-as-read call, in that order, and is answered 200.
C1_AsStated ==
    \A h \in Handlers :
        Finished(h) /\ TextMessage(req[h].data) /\ AllFour(req[h].data)
        => /\ Apis(h) = <<"completion", "send", "read">>
           /\ req[h].status = 200

\* C1, amended: a valid text delivery with all four fields leads to the calls
\* completion, send-reply, mark-as-read, each once and in that order, when the
\* provider client is initialised, and to send-reply, mark-as-read with no
\* completion call when it is None; the calls made so far are always a prefix
\* of that sequence, and the response is 200 whatever the outcomes were.
C1_CallsInOrder ==
    \A h \in Handlers :
        TextMessage(req[h].data) /\ AllFour(req[h].data)
        => /\ IsPrefix(Apis(h), ExpectedApis)
           /\ Finished(h) => Apis(h) = ExpectedApis /\ req[h].status = 200

\* A valid delivery answered 200 after the provider raised, the send-reply
\* call got a non-2xx response and the mark-as-read call no response.
C1_Witness ==
    \E h \in Handlers :
        /\ Finished(h) /\ req[h].status = 200 /\ Len(calls[h]) = 3
        /\ calls[h][1].outcome = "raise"
        /\ calls[h][2].outcome = "non2xx"
        /\ calls[h][3].outcome = "transport"

\* ------------------------------------------------------------------- C2

\* C2: a body with a wrong type at any level of the expected path is
\* answered 400, and no outbound call is made for it.
C2_MalformedIs400 ==
    \A h \in Handlers :
        Finished(h) /\ WrongTypeOnPath(req[h].data)
        => req[h].status = 400 /\ calls[h] = <<>>

\* ------------------------------------------------------------------- C3

\* C3: a text message of a well-typed delivery that lacks one of the four
\* required fields, or holds it empty, is answered 400 and leads to no
\* outbound call.
C3_MissingFieldIs400 ==
    \A h \in Handlers :
        /\ req[h].pc # "idle"
        /\ TextMessage(req[h].data)
        /\ ~WrongTypeOnPath(req[h].data)
        /\ ~AllFour(req[h].data)
        => /\ Finished(h)
           /\ req[h].status = 400
           /\ req[h].message = MissingData
           /\ calls[h] = <<>>

\* A text message without its id (the other three present) was answered.
C3_Witness ==
    \E h \in Handlers :
        /\ Finished(h) /\ TextMessage(req[h].data)
        /\ req[h].data.id = Absent /\ req[h].data.from # Absent
        /\ req[h].data.body # Absent /\ req[h].data.phone # Absent
        /\ req[h].status = 400

\* ------------------------------------------------------------------- C4

\* C4: a delivery with no wrong type and no empty array on the path that
\* carries no message object, or a message whose type is not "text", is
\* answered 200 success with no outbound call, whether or not phoneNumberId,
\* fromUser and messageId are present.
C4_NonTextIs200 ==
    \A h \in Handlers :
        /\ req[h].pc # "idle"
        /\ ~WrongTypeOnPath(req[h].data)
        /\ ~EmptyArrayOnPath(req[h].data)
        /\ ~TextMessage(req[h].data)
        => /\ Finished(h)
           /\ req[h].status = 200
           /\ req[h].message = Success
           /\ calls[h] = <<>>

\* An image message without sender and id was answered 200.
C4_Witness ==
    \E h \in Handlers :
        /\ Finished(h) /\ req[h].data.message0 = "dict"
        /\ req[h].data.type = "image" /\ req[h].data.id = Absent
        /\ req[h].status = 200

\* ------------------------------------------------------------------- C5

\* A query parameter that is present: request.args holds it, not empty.
Given(x) == x \notin {PyNone, ""}

\* C5: GET /webhook answers 200 with the challenge as body when mode and
\* token are present, mode is "subscribe" and the token is the configured
\* one; 403 when both are present and do not match; 400 when mode or token
\* is absent; and no other status, whether the challenge is present or not.
C5_Verification ==
    get_request.route = "/webhook"
    => LET q == get_request
       IN  IF Given(q.mode) /\ Given(q.token)
           THEN IF q.mode = "subscribe" /\ q.token = WEBHOOK_VERIFY_TOKEN
                THEN get_response.status = 200 /\ get_response.body = q.challenge
                ELSE get_response.status = 403
           ELSE get_response.status = 400

\* ------------------------------------------------------------------- C6

\* C6: each relay operation is attempted at most once per delivery; whatever
\* the outcome of the send-reply call, the handler goes on to the mark-as-read
\* call, which follows it; and the handler ends with 200, not aborted.
C6_RelayIndependent ==
    \A h \in Handlers :
        /\ Cardinality(CallsTo(h, "send")) <= 1
        /\ Cardinality(CallsTo(h, "read")) <= 1
        /\ CallsTo(h, "send") # {} =>
              /\ req[h].pc \in {"mark_read", "done"}
              /\ Finished(h) =>
                    /\ \E i \in CallsTo(h, "send"), j \in CallsTo(h, "read") : i < j
                    /\ req[h].status = 200

\* The send-reply call failed (no response), the mark-as-read call was made
\* after it and failed too (non-2xx), and the handler answered 200.
C6_Witness ==
    \E h \in Handlers :
        /\ Finished(h) /\ req[h].status = 200
        /\ \E i \in CallsTo(h, "send"), j \in CallsTo(h, "read") :
              /\ i < j
              /\ calls[h][i].outcome = "transport"
              /\ calls[h][j].outcome = "non2xx"

\* ------------------------------------------------------------------- C7

\* The handler has the return value of get_chat_completion.
HasReply(h) ==
    \/ req[h].pc \in {"send_reply", "mark_read"}
    \/ Finished(h) /\ req[h].user_message_text # PyNone

\* C7: get_chat_completion never raises and always returns a string: with no
\* client the "service unavailable" fallback, without a provider call; when
\* the provider call raises the "error processing" fallback; otherwise the
\* completion text. Both fallbacks are non-empty, so the body of the
\* send-reply call is a non-empty string whenever the provider call raised.
C7_AdapterNeverThrows ==
    \A h \in Handlers :
        HasReply(h) =>
            /\ req[h].status # 500
            /\ req[h].ai_reply # PyNone
            /\ client = PyNone =>
                  /\ req[h].ai_reply = ServiceUnavailable
                  /\ req[h].ai_reply # ""
                  /\ CallsTo(h, "completion") = {}
            /\ client # PyNone =>
                  /\ Cardinality(CallsTo(h, "completion")) = 1
                  /\ \A i \in CallsTo(h, "completion") :
                        /\ calls[h][i].body = req[h].user_message_text
                        /\ calls[h][i].outcome = "raise" =>
                              /\ req[h].ai_reply = ErrorProcessing
                              /\ req[h].ai_reply # ""
                        /\ calls[h][i].outcome = "ok" =>
                              req[h].ai_reply = CompletionText(req[h].user_message_text)
            /\ \A j \in CallsTo(h, "send") :
                  (\E i \in CallsTo(h, "completion") : calls[h][i].outcome = "raise")
                  => calls[h][j].body \notin {PyNone, ""}

\* The provider call raised and the "error processing" fallback was sent.
C7_Witness ==
    \E h \in Handlers :
        /\ \E i \in CallsTo(h, "completion") : calls[h][i].outcome = "raise"
        /\ \E j \in CallsTo(h, "send") : calls[h][j].body = ErrorProcessing

\* ------------------------------------------------------------------- C8

\* An outbound call without what the provider and the network decide: the
\* operation and whom and what it is about.
Signature(c) ==
    [api |-> c.api, phone |-> c.phone, to |-> c.to, message_id |-> c.message_id,
     body |-> IF c.api = "send" THEN "-" ELSE c.body]

Signatures(h) == [i \in 1..Len(calls[h]) |-> Signature(calls[h][i])]

\* C8 as stated: two finished handlers that received the same body made the
\* same calls and gave the same response, and for a valid text delivery the
\* calls are the three calls completion, send-reply, mark-as-read.
C8_AsStated ==
    \A g, h \in Handlers :
        g # h /\ Finished(g) /\ Finished(h) /\ req[g].data = req[h].data
        => /\ Signatures(g) = Signatures(h)
           /\ req[g].status = req[h].status
           /\ TextMessage(req[h].data) /\ AllFour(req[h].data)
              => Apis(h) = <<"completion", "send", "read">>

\* C8, amended: no deduplication. Two finished handlers that received the
\* same body made the same sequence of outbound calls and gave the same
\* response, whatever else was handled; for a valid text delivery that
\* sequence is completion, send-reply, mark-as-read when the provider client
\* is initialised, and send-reply, mark-as-read when it is None.
C8_NoDedup ==
    \A g, h \in Handlers :
        g # h /\ Finished(g) /\ Finished(h) /\ req[g].data = req[h].data
        => /\ Signatures(g) = Signatures(h)
           /\ req[g].status = req[h].status
           /\ TextMessage(req[h].data) /\ AllFour(req[h].data)
              => Apis(h) = ExpectedApis

\* The same valid text delivery was handled twice, with three calls each time.
C8_Witness ==
    \E g, h \in Handlers :
        /\ g # h /\ Finished(g) /\ Finished(h)
        /\ req[g].data = req[h].data
        /\ Len(calls[g]) = 3 /\ Len(calls[h]) = 3

\* ------------------------------------------------------------------- C9

\* Every call of a handler carries the handler's own delivery: the reply
\* goes to its fromUser, in the context of its messageId, through its
\* phoneNumberId, with the completion result for its textBody; mark-as-read
\* names its messageId; the calls are in the order completion, send-reply,
\* mark-as-read.
OwnCalls ==
    \A h \in Handlers : \A i \in 1..Len(calls[h]) :
        LET c == calls[h][i]
            b == req[h].data
        IN  /\ c.api = "completion" => c.body = b.body
            /\ c.api = "send" =>
                  /\ c.to = b.from /\ c.message_id = b.id /\ c.phone = b.phone
                  /\ c.body \in {CompletionText(b.body), ErrorProcessing,
                                 ServiceUnavailable}
                  /\ c.body = CompletionText(b.body) <=>
                        \E j \in 1..(i - 1) :
                            calls[h][j].api = "completion" /\ calls[h][j].outcome = "ok"
            /\ c.api = "read" => c.message_id = b.id /\ c.phone = b.phone
            /\ \A j \in 1..(i - 1) :
                  calls[h][j].api # "read"
                  /\ (calls[h][j].api = "send" => c.api = "read")

\* A step changes the locals and the calls of one handler at most, and never
\* the process-wide client.
OneHandlerStep ==
    /\ client' = client
    /\ \A g, h \in Handlers :
          (req'[g] # req[g] \/ calls'[g] # calls[g])
          /\ (req'[h] # req[h] \/ calls'[h] # calls[h])
          => g = h

\* C9: under every interleaving of the handlers each handler's calls carry
\* its own delivery, in order, and no handler writes what another one reads.
C9_HandlersIndependent == []OwnCalls /\ [][OneHandlerStep]_vars

\* Two handlers serving different users are both between their send-reply
\* and their mark-as-read call.
C9_Witness ==
    \E g, h \in Handlers :
        /\ req[g].pc = "mark_read" /\ req[h].pc = "mark_read"
        /\ req[g].message_from # req[h].message_from
        /\ req[g].message_id # req[h].message_id

\* ------------------------------------------------------------------ C10

\* The response is the parser's "malformed payload" signal, or the request
\* ended in an exception.
MalformedSignal(h) == req[h].status = 400 /\ req[h].message = MalformedPayload
Threw(h) == req[h].status = 500

\* C10 as stated: with no wrong type on the path (keys absent, arrays empty)
\* the parser neither signals a malformed payload nor throws.
C10_AsStated ==
    \A h \in Handlers :
        req[h].pc # "idle" /\ ~WrongTypeOnPath(req[h].data)
        => ~MalformedSignal(h) /\ ~Threw(h)

\* C10, amended: a default is substituted for every absent key of the path,
\* so a body with no wrong type and no empty array on the path is never
\* answered "malformed payload" and never throws; an empty array at entry,
\* changes or messages is answered "malformed payload", as a caught wrong
\* type is, and nothing else is.
C10_DefaultsForAbsentKeys ==
    \A h \in Handlers :
        req[h].pc # "idle" =>
            /\ ~WrongTypeOnPath(req[h].data) /\ ~EmptyArrayOnPath(req[h].data)
               => ~MalformedSignal(h) /\ ~Threw(h)
            /\ ~WrongTypeOnPath(req[h].data) /\ EmptyArrayOnPath(req[h].data)
               => MalformedSignal(h)
            /\ MalformedSignal(h)
               => WrongTypeOnPath(req[h].data) \/ EmptyArrayOnPath(req[h].data)

\* A body without the key "entry" went through the parser on the defaults
\* and was answered 200.
C10_Witness ==
    \E h \in Handlers :
        /\ Finished(h)
        /\ req[h].data.data = "dict" /\ req[h].data.entry = Absent
        /\ req[h].status = 200 /\ req[h].message = Success

====
